---- MODULE Spec2Model ----
(***************************************************************************)
(* A model of the Product store service: the Product record layer          *)
(* (service/models.py, imported by routes.py and exercised by              *)
(* tests/test_models.py) and the request handlers of service/routes.py.    *)
(*                                                                         *)
(* Representation.                                                         *)
(*   - A text is a sequence of one-character strings, so that upper(),     *)
(*     lower() and the decimal parser are computed character by character. *)
(*   - A Decimal is the integer number of hundredths (the stored scale).   *)
(*   - An optional value is None (the empty tuple) or Some(v) == <<v>>.    *)
(*   - The table is the set of persisted records, `rows'; the primary-key  *)
(*     sequence is `nextId'.                                               *)
(*   - `last' records the most recent call: the request, the response and  *)
(*     the table as it was before the call.                                *)
(***************************************************************************)
EXTENDS Integers, Sequences, FiniteSets, TLC

VARIABLES rows, nextId, last

vars == <<rows, nextId, last>>

\* The number of primary keys the sequence may hand out in a run.
MaxId == 2

None == <<>>

Some(v) == <<v>>

(***************************************************************************)
(* Texts                                                                   *)
(***************************************************************************)
Lowers == <<"a","b","c","d","e","f","g","h","i","j","k","l","m",
            "n","o","p","q","r","s","t","u","v","w","x","y","z">>

Uppers == <<"A","B","C","D","E","F","G","H","I","J","K","L","M",
            "N","O","P","Q","R","S","T","U","V","W","X","Y","Z">>

UpperChar(c) ==
    IF \E i \in 1..26 : Lowers[i] = c
    THEN Uppers[CHOOSE i \in 1..26 : Lowers[i] = c]
    ELSE c

LowerChar(c) ==
    IF \E i \in 1..26 : Uppers[i] = c
    THEN Lowers[CHOOSE i \in 1..26 : Uppers[i] = c]
    ELSE c

RECURSIVE upper(_)
\* str.upper()
upper(s) == IF s = <<>> THEN <<>> ELSE <<UpperChar(Head(s))>> \o upper(Tail(s))

RECURSIVE lower(_)
\* str.lower()
lower(s) == IF s = <<>> THEN <<>> ELSE <<LowerChar(Head(s))>> \o lower(Tail(s))

(***************************************************************************)
(* Decimals: Decimal(text) and str(Decimal)                                *)
(***************************************************************************)
Digits == <<"0","1","2","3","4","5","6","7","8","9">>

IsDigit(c) == \E i \in 1..10 : Digits[i] = c

DigitVal(c) == (CHOOSE i \in 1..10 : Digits[i] = c) - 1

RECURSIVE StripLeft(_)
StripLeft(s) == IF s # <<>> /\ Head(s) = " " THEN StripLeft(Tail(s)) ELSE s

RECURSIVE StripRight(_)
StripRight(s) ==
    IF s # <<>> /\ s[Len(s)] = " " THEN StripRight(SubSeq(s, 1, Len(s) - 1)) ELSE s

Strip(s) == StripRight(StripLeft(s))

AllDigits(s) == \A i \in 1..Len(s) : IsDigit(s[i])

RECURSIVE DigitsVal(_)
DigitsVal(s) ==
    IF s = <<>> THEN 0 ELSE DigitsVal(SubSeq(s, 1, Len(s) - 1)) * 10 + DigitVal(s[Len(s)])

DotAt(s) == IF \E i \in 1..Len(s) : s[i] = "." THEN CHOOSE i \in 1..Len(s) : s[i] = "." ELSE 0

IntPart(s) == IF DotAt(s) = 0 THEN s ELSE SubSeq(s, 1, DotAt(s) - 1)

FracPart(s) == IF DotAt(s) = 0 THEN <<>> ELSE SubSeq(s, DotAt(s) + 1, Len(s))

\* The texts the Decimal constructor accepts, among unsigned fixed-point
\* numerals of at most two fractional digits (signs, exponents, NaN and
\* Infinity are outside the texts drawn here): surrounding blanks are
\* dropped, then digits, optionally a point and digits, at least one digit.
IsDecimalText(t) ==
    LET s == Strip(t) IN
    /\ AllDigits(IntPart(s))
    /\ AllDigits(FracPart(s))
    /\ Len(IntPart(s)) + Len(FracPart(s)) > 0
    /\ Len(FracPart(s)) <= 2

\* Decimal(text), in hundredths.
DecimalOf(t) ==
    LET s == Strip(t)
        f == FracPart(s)
    IN  DigitsVal(IntPart(s)) * 100
          + (IF Len(f) = 0 THEN 0
             ELSE IF Len(f) = 1 THEN DigitVal(f[1]) * 10
             ELSE DigitsVal(f))

RECURSIVE NatStr(_)
NatStr(n) == IF n < 10 THEN <<Digits[n + 1]>> ELSE NatStr(n \div 10) \o <<Digits[(n % 10) + 1]>>

\* str(Decimal) of a value read back from the store (fixed scale).
DecimalStr(d) ==
    NatStr(d \div 100) \o <<".">> \o <<Digits[((d % 100) \div 10) + 1], Digits[(d % 10) + 1]>>

(***************************************************************************)
(* The Category enumeration and the Product record                         *)
(***************************************************************************)
\* The members of Category that the repository's sources name.
Category == {"CLOTHS", "UNKNOWN"}

\* member.name
CategoryName(c) ==
    CASE c = "CLOTHS"  -> <<"C","L","O","T","H","S">>
      [] c = "UNKNOWN" -> <<"U","N","K","N","O","W","N">>

\* hasattr(Category, text)
IsCategoryName(t) == \E c \in Category : CategoryName(c) = t

\* getattr(Category, text), where it succeeds
CategoryOf(t) == CHOOSE c \in Category : CategoryName(c) = t

\* Product(): every column unset.
Product ==
    [id |-> None, name |-> None, description |-> None,
     price |-> None, available |-> None, category |-> None]

Keys == {"id", "name", "description", "price", "available", "category"}

\* name, price, available and category are required; description is optional.
RequiredKeys == {"name", "price", "available", "category"}

\* A JSON value that is a boolean or a text.
JBool(b) == [kind |-> "bool", b |-> b, s |-> <<>>]

JStr(s) == [kind |-> "str", b |-> FALSE, s |-> s]

\* A request body after JSON decoding: a mapping with the keys `keys', or a
\* value that is no mapping (JSON null).
Mapping(keys, id, name, description, price, available, category) ==
    [mapping |-> TRUE, keys |-> keys, id |-> id, name |-> name,
     description |-> description, price |-> price,
     available |-> available, category |-> category]

NoData ==
    [mapping |-> FALSE, keys |-> {}, id |-> 0, name |-> <<>>,
     description |-> <<>>, price |-> <<>>,
     available |-> JBool(FALSE), category |-> <<>>]

\* The two points on which the description of deserialize is silent: whether
\* the key id, when the data carries it, is assigned to the record, and
\* whether an absent optional key clears the field or leaves it as it was.
Readings == [idFromData : BOOLEAN, absentClears : BOOLEAN]

Ok(product) == [ok |-> TRUE, error |-> "", product |-> product]

Raise(error, product) == [ok |-> FALSE, error |-> error, product |-> product]

\* Faulty variant: the type of available is not checked.
DeserializeFails_AnyAvailable(data) ==
    \/ ~data.mapping
    \/ ~(RequiredKeys \subseteq data.keys)
    \/ ("category" \in data.keys /\ ~IsCategoryName(data.category))

\* The four conditions under which deserialize raises DataValidationError.
DeserializeFails(data) ==
    \/ ~data.mapping
    \/ ~(RequiredKeys \subseteq data.keys)
    \/ ("available" \in data.keys /\ data.available.kind # "bool")
    \/ ("category" \in data.keys /\ ~IsCategoryName(data.category))

\* Product.deserialize(data)
deserialize(self, data, reading) ==
    IF DeserializeFails(data)
    THEN Raise("DataValidationError", self)
    ELSE Ok([id |-> IF reading.idFromData /\ "id" \in data.keys
                    THEN Some(data.id) ELSE self.id,
             name |-> Some(data.name),
             description |->
                 IF "description" \in data.keys THEN Some(data.description)
                 ELSE IF reading.absentClears THEN None ELSE self.description,
             price |-> Some(DecimalOf(data.price)),
             available |-> Some(data.available.b),
             category |-> Some(CategoryOf(data.category))])

\* Product.serialize(): the category as its name, the price as decimal text.
serialize(p) ==
    [id |-> p.id, name |-> p.name, description |-> p.description,
     price |-> IF p.price = None THEN None ELSE Some(DecimalStr(p.price[1])),
     available |-> p.available,
     category |-> IF p.category = None THEN None
                  ELSE Some(CategoryName(p.category[1]))]

(***************************************************************************)
(* The record layer's persistence operations, on a table `tbl'             *)
(***************************************************************************)
\* A row the store accepts: the required columns are set.
Storable(p) ==
    p.name # None /\ p.price # None /\ p.available # None /\ p.category # None

\* Product.all()
all(tbl) == tbl

\* Product.find(id): the set holding the matching record, empty if absent.
find(tbl, id) == {r \in tbl : r.id = Some(id)}

\* Product.find_by_name(name)
find_by_name(tbl, name) == {r \in tbl : r.name = Some(name)}

\* Product.find_by_category(category)
find_by_category(tbl, category) == {r \in tbl : r.category = Some(category)}

\* Product.find_by_availability(available)
find_by_availability(tbl, available) == {r \in tbl : r.available = Some(available)}

\* A price argument: a Decimal or a text.
PDec(d) == [kind |-> "dec", d |-> d, s |-> <<>>]

PStr(s) == [kind |-> "str", d |-> 0, s |-> s]

\* Faulty variant: a text is compared as it is, and equals no stored Decimal.
find_by_price_Raw(tbl, price) ==
    IF price.kind = "str" THEN {} ELSE {r \in tbl : r.price = Some(price.d)}

\* Product.find_by_price(price): a text is normalised to a Decimal first.
find_by_price(tbl, price) ==
    LET value == IF price.kind = "str" THEN DecimalOf(price.s) ELSE price.d
    IN  {r \in tbl : r.price = Some(value)}

\* product.create(): a fresh id is assigned and the row inserted.
create(tbl, seq, p) ==
    IF ~Storable(p)
    THEN [error |-> "PersistenceError", rows |-> tbl, nextId |-> seq, product |-> p]
    ELSE LET q == [p EXCEPT !.id = Some(seq)]
         IN  [error |-> "", rows |-> tbl \cup {q}, nextId |-> seq + 1, product |-> q]

\* Faulty variant: a record without id is not refused; it matches no row.
update_NoIdCheck(tbl, p) ==
    IF p.id = None \/ find(tbl, p.id[1]) = {}
    THEN [error |-> "NotFound", rows |-> tbl]
    ELSE [error |-> "", rows |-> (tbl \ find(tbl, p.id[1])) \cup {p}]

\* product.update(): the row of the record's id takes the record's values.
update(tbl, p) ==
    IF p.id = None
    THEN [error |-> "DataValidationError", rows |-> tbl]
    ELSE IF find(tbl, p.id[1]) = {}
    THEN [error |-> "NotFound", rows |-> tbl]
    ELSE [error |-> "", rows |-> (tbl \ find(tbl, p.id[1])) \cup {p}]

\* product.delete(): the row of the record's id is removed, if there is one.
delete(tbl, p) == {r \in tbl : r.id # p.id}

(***************************************************************************)
(* Requests and responses                                                  *)
(***************************************************************************)
JSON == "application/json"

\* The argument of a call of the record layer: a price (Decimal or text), a
\* name, a category, a boolean or an id; NoArg when the call takes none.
NoArg == [kind |-> "none", d |-> 0, s |-> <<>>, b |-> FALSE, c |-> ""]

PriceArg(price) == [NoArg EXCEPT !.kind = price.kind, !.d = price.d, !.s = price.s]

NameArg(name) == [NoArg EXCEPT !.kind = "name", !.s = name]

CategoryArg(c) == [NoArg EXCEPT !.kind = "category", !.c = c]

BoolArg(b) == [NoArg EXCEPT !.kind = "bool", !.b = b]

IdArg(id) == [NoArg EXCEPT !.kind = "id", !.d = id]

NoArgs == [name |-> None, category |-> None, available |-> None, price |-> None]

\* A call: the path id, the Content-Type header (None when the header is
\* absent), the decoded body, the query string's parameters and, for a call
\* of the record layer, the record and the argument it is made with.
Request(op, id, ctype, data, args, rec, arg) ==
    [op |-> op, id |-> id, ctype |-> ctype, data |-> data, args |-> args,
     rec |-> rec, arg |-> arg]

\* What a call returned: the status and the error kind ("" when none), the
\* serialized record or the list of them, the Location header (the id of the
\* read endpoint it names), whether request.get_json() was reached, and for
\* the record layer the record and the records returned.
Response(status, error, message, body, list, location, readBody) ==
    [status |-> status, error |-> error, message |-> message, body |-> body,
     list |-> list, location |-> location, readBody |-> readBody,
     product |-> Product, records |-> {}]

\* abort(status, message), and an exception that leaves the handler
Abort(status, error, readBody) ==
    Response(status, error, "", None, {}, None, readBody)

\* What a call of the record layer returned or raised.
Result(error, product, records) ==
    [Abort(0, error, FALSE) EXCEPT !.product = product, !.records = records]

Returned(resp, tbl, seq) == [resp |-> resp, rows |-> tbl, nextId |-> seq]

(***************************************************************************)
(* The request handlers                                                    *)
(***************************************************************************)
\* Faulty variant: a request without the header is let through.
check_content_type_AbsentOk(ctype, content_type) ==
    IF ctype = None THEN TRUE
    ELSE IF ctype[1] = content_type THEN TRUE
    ELSE FALSE

\* check_content_type: TRUE when the handler may go on, FALSE on abort(415).
check_content_type(ctype, content_type) ==
    IF ctype = None THEN FALSE
    ELSE IF ctype[1] = content_type THEN TRUE
    ELSE FALSE

\* Faulty variant: product.create() is left out.
create_products_NoCreate(tbl, seq, req, reading) ==
    IF ~check_content_type(req.ctype, JSON)
    THEN Returned(Abort(415, "UnsupportedMediaType", FALSE), tbl, seq)
    ELSE LET d == deserialize(Product, req.data, reading) IN
         IF ~d.ok
         THEN Returned(Abort(400, d.error, TRUE), tbl, seq)
         ELSE Returned(Response(201, "", "", Some(serialize(d.product)), {},
                                d.product.id, TRUE),
                       tbl, seq)

\* Faulty variant: the record is serialized before product.create() gives it its id.
create_products_SerializeFirst(tbl, seq, req, reading) ==
    IF ~check_content_type(req.ctype, JSON)
    THEN Returned(Abort(415, "UnsupportedMediaType", FALSE), tbl, seq)
    ELSE LET d == deserialize(Product, req.data, reading) IN
         IF ~d.ok
         THEN Returned(Abort(400, d.error, TRUE), tbl, seq)
         ELSE LET c == create(tbl, seq, d.product) IN
              IF c.error # ""
              THEN Returned(Abort(500, c.error, TRUE), tbl, seq)
              ELSE Returned(Response(201, "", "", Some(serialize(d.product)), {},
                                     c.product.id, TRUE),
                            c.rows, c.nextId)

\* POST /products
create_products(tbl, seq, req, reading) ==
    IF ~check_content_type(req.ctype, JSON)
    THEN Returned(Abort(415, "UnsupportedMediaType", FALSE), tbl, seq)
    ELSE LET d == deserialize(Product, req.data, reading) IN
         IF ~d.ok
         THEN Returned(Abort(400, d.error, TRUE), tbl, seq)
         ELSE LET c == create(tbl, seq, d.product) IN
              IF c.error # ""
              THEN Returned(Abort(500, c.error, TRUE), tbl, seq)
              ELSE Returned(Response(201, "", "", Some(serialize(c.product)), {},
                                     c.product.id, TRUE),
                            c.rows, c.nextId)

\* Faulty variant: a parameter counts as soon as it is present.
Truthy_Present(arg) == arg # None

\* Python's truth of a query parameter: present and not the empty text.
Truthy(arg) == arg # None /\ arg[1] # <<>>

TrueTexts == {<<"t","r","u","e">>, <<"y","e","s">>, <<"1">>}

\* Faulty variant: the texts of category and available are used as they
\* are written, without upper() and lower().
list_products_CaseSensitive(tbl, req) ==
    LET product_name == req.args.name
        category_name == req.args.category
        product_available == req.args.available
        product_price == req.args.price
        listed(products) ==
            Response(200, "", "", None, {serialize(p) : p \in products}, None, FALSE)
    IN  IF Truthy(product_name)
        THEN listed(find_by_name(tbl, product_name[1]))
        ELSE IF Truthy(category_name)
        THEN IF IsCategoryName(category_name[1])
             THEN listed(find_by_category(tbl, CategoryOf(category_name[1])))
             ELSE Abort(500, "AttributeError", FALSE)
        ELSE IF Truthy(product_available)
        THEN listed(find_by_availability(tbl, product_available[1] \in TrueTexts))
        ELSE IF Truthy(product_price)
        THEN IF IsDecimalText(product_price[1])
             THEN listed(find_by_price(tbl, PDec(DecimalOf(product_price[1]))))
             ELSE Abort(500, "InvalidOperation", FALSE)
        ELSE listed(all(tbl))

\* GET /products
list_products(tbl, req) ==
    LET product_name == req.args.name
        category_name == req.args.category
        product_available == req.args.available
        product_price == req.args.price
        listed(products) ==
            Response(200, "", "", None, {serialize(p) : p \in products}, None, FALSE)
    IN  IF Truthy(product_name)
        THEN listed(find_by_name(tbl, product_name[1]))
        ELSE IF Truthy(category_name)
        THEN IF IsCategoryName(upper(category_name[1]))
             THEN listed(find_by_category(tbl, CategoryOf(upper(category_name[1]))))
             ELSE Abort(500, "AttributeError", FALSE)
        ELSE IF Truthy(product_available)
        THEN listed(find_by_availability(tbl, lower(product_available[1]) \in TrueTexts))
        ELSE IF Truthy(product_price)
        THEN IF IsDecimalText(product_price[1])
             THEN listed(find_by_price(tbl, PDec(DecimalOf(product_price[1]))))
             ELSE Abort(500, "InvalidOperation", FALSE)
        ELSE listed(all(tbl))

\* GET /products/<id>
get_a_product(tbl, product_id) ==
    LET product == find(tbl, product_id) IN
    IF product = {}
    THEN Abort(404, "NotFound", FALSE)
    ELSE Response(200, "", "", Some(serialize(CHOOSE p \in product : TRUE)), {},
                  None, FALSE)

\* Faulty variant: an unknown id is not refused; the body is stored under it.
update_a_product_Upsert(tbl, req, reading) ==
    IF ~check_content_type(req.ctype, JSON)
    THEN Returned(Abort(415, "UnsupportedMediaType", FALSE), tbl, 0)
    ELSE LET product == find(tbl, req.id)
             d == deserialize(IF product = {} THEN Product ELSE CHOOSE p \in product : TRUE,
                              req.data, reading)
         IN  IF ~d.ok
             THEN Returned(Abort(400, d.error, TRUE), tbl, 0)
             ELSE LET q == [d.product EXCEPT !.id = Some(req.id)]
                  IN  Returned(Response(200, "", "", Some(serialize(q)), {}, None, TRUE),
                               (tbl \ product) \cup {q}, 0)

\* Faulty variant: product.id = product_id is left out.
update_a_product_BodyId(tbl, req, reading) ==
    IF ~check_content_type(req.ctype, JSON)
    THEN Returned(Abort(415, "UnsupportedMediaType", FALSE), tbl, 0)
    ELSE LET product == find(tbl, req.id) IN
         IF product = {}
         THEN Returned(Abort(404, "NotFound", FALSE), tbl, 0)
         ELSE LET d == deserialize(CHOOSE p \in product : TRUE, req.data, reading) IN
              IF ~d.ok
              THEN Returned(Abort(400, d.error, TRUE), tbl, 0)
              ELSE LET q == d.product
                       u == update(tbl, q)
                   IN  IF u.error # ""
                       THEN Returned(Abort(IF u.error = "NotFound" THEN 404 ELSE 400,
                                           u.error, TRUE), tbl, 0)
                       ELSE Returned(Response(200, "", "", Some(serialize(q)), {},
                                              None, TRUE),
                                     u.rows, 0)

\* PUT /products/<id>
update_a_product(tbl, req, reading) ==
    IF ~check_content_type(req.ctype, JSON)
    THEN Returned(Abort(415, "UnsupportedMediaType", FALSE), tbl, 0)
    ELSE LET product == find(tbl, req.id) IN
         IF product = {}
         THEN Returned(Abort(404, "NotFound", FALSE), tbl, 0)
         ELSE LET d == deserialize(CHOOSE p \in product : TRUE, req.data, reading) IN
              IF ~d.ok
              THEN Returned(Abort(400, d.error, TRUE), tbl, 0)
              ELSE LET q == [d.product EXCEPT !.id = Some(req.id)]
                       u == update(tbl, q)
                   IN  IF u.error # ""
                       THEN Returned(Abort(IF u.error = "NotFound" THEN 404 ELSE 400,
                                           u.error, TRUE), tbl, 0)
                       ELSE Returned(Response(200, "", "", Some(serialize(q)), {},
                                              None, TRUE),
                                     u.rows, 0)

\* Faulty variant: product.delete() is left out.
delete_a_product_NoDelete(tbl, product_id) ==
    LET product == find(tbl, product_id) IN
    IF product # {}
    THEN Returned(Response(200, "", "Product deleted.", None, {}, None, FALSE), tbl, 0)
    ELSE Returned(Response(404, "", "Product with given ID not found.", None, {},
                           None, FALSE),
                  tbl, 0)

\* DELETE /products/<id>.  The 404 is an ordinary response, not an abort; the
\* log call after product.delete() has no placeholder for its argument, which
\* the logging module reports on stderr without raising.
delete_a_product(tbl, product_id) ==
    LET product == find(tbl, product_id) IN
    IF product # {}
    THEN Returned(Response(200, "", "Product deleted.", None, {}, None, FALSE),
                  delete(tbl, CHOOSE p \in product : TRUE), 0)
    ELSE Returned(Response(404, "", "Product with given ID not found.", None, {},
                           None, FALSE),
                  tbl, 0)

(***************************************************************************)
(* The inputs the calls are drawn from                                     *)
(***************************************************************************)
Hat == <<"H","a","t">>

Sox == <<"S","o","x">>

ARedHat == <<"r","e","d">>

Names == {Hat, Sox}

\* 12.50 (written two ways) and 19.99
PriceTexts == {<<"1","2",".","5","0">>, <<"1","2",".","5">>, <<"1","9",".","9","9">>}

CLOTHS == <<"C","L","O","T","H","S">>

UNKNOWN == <<"U","N","K","N","O","W","N">>

\* The ids a body may carry.
BodyIds == 1..MaxId

\* Well-formed payloads: four products, each with or without the key id;
\* the last one carries no description.
BasePayloads ==
    {Mapping(Keys \ {"id"}, 0, Hat, ARedHat, <<"1","2",".","5","0">>, JBool(TRUE), CLOTHS),
     Mapping(Keys \ {"id"}, 0, Hat, ARedHat, <<"1","9",".","9","9">>, JBool(FALSE), UNKNOWN),
     Mapping(Keys \ {"id"}, 0, Sox, ARedHat, <<"1","2",".","5">>, JBool(FALSE), CLOTHS),
     Mapping(RequiredKeys, 0, Sox, <<>>, <<"1","9",".","9","9">>, JBool(TRUE), UNKNOWN)}

ValidPayloads ==
    BasePayloads
      \cup {[d EXCEPT !.keys = @ \cup {"id"}, !.id = i] : d \in BasePayloads, i \in BodyIds}

Sample == Mapping(Keys \ {"id"}, 0, Hat, ARedHat, <<"1","2",".","5","0">>, JBool(TRUE), CLOTHS)

\* Ill-formed payloads: no mapping, a required key missing, only a name and
\* an unknown key, available as the text "True", an unknown category.
InvalidPayloads ==
    {NoData}
      \cup {[Sample EXCEPT !.keys = @ \ {k}] : k \in RequiredKeys}
      \cup {[Sample EXCEPT !.keys = {"name", "new_name"}]}
      \cup {[Sample EXCEPT !.available = JStr(<<"T","r","u","e">>)],
            [Sample EXCEPT !.available = JStr(<<"T","r","u","e">>), !.category = UNKNOWN],
            [Sample EXCEPT !.category = <<"B","O","G","U","S">>],
            [Sample EXCEPT !.category = <<"c","l","o","t","h","s">>]}

Payloads == ValidPayloads \cup InvalidPayloads

ContentTypes == {None, Some(JSON), Some("text/plain")}

\* The ids a path may name (the int converter takes 0 and up).
PathIds == 0..MaxId

NameArgs == {None, Some(<<>>), Some(Hat), Some(Sox)}

CategoryArgs ==
    {None, Some(<<>>), Some(CLOTHS), Some(<<"c","l","o","t","h","s">>),
     Some(<<"U","n","k","n","o","w","n">>), Some(<<"b","o","g","u","s">>)}

AvailableArgs ==
    {None, Some(<<>>), Some(<<"t","r","u","e">>), Some(<<"Y","e","s">>), Some(<<"1">>),
     Some(<<"T","R","U","E">>), Some(<<"f","a","l","s","e">>), Some(<<"0">>)}

PriceArgs ==
    {None, Some(<<>>), Some(<<"1","2",".","5","0">>), Some(<<"1","2",".","5">>),
     Some(<<"1","9",".","9","9">>), Some(<<"a","b","c">>)}

QueryArgs ==
    [name : NameArgs, category : CategoryArgs, available : AvailableArgs, price : PriceArgs]

\* In-memory records the record layer is called with: a record built from a
\* well-formed payload, its id unset or set to any id.
FreshRecords ==
    {deserialize(Product, d, [idFromData |-> FALSE, absentClears |-> FALSE]).product :
        d \in BasePayloads}

MemoryRecords ==
    FreshRecords \cup {[p EXCEPT !.id = Some(i)] : p \in FreshRecords, i \in BodyIds}

\* The arguments find_by_price is called with.
PriceValues == {PDec(1250), PDec(1999), PDec(500)} \cup {PStr(t) : t \in PriceTexts}

(***************************************************************************)
(* The state machine                                                       *)
(***************************************************************************)
Call(req, resp) == [req |-> req, resp |-> resp, before |-> rows]

\* No call is being answered.
NoCall ==
    [req |-> Request("none", 0, None, NoData, NoArgs, Product, NoArg),
     resp |-> Abort(0, "", FALSE),
     before |-> {}]

\* The service answers one call at a time.
Idle == last = NoCall

Init ==
    /\ rows = {}
    /\ nextId = 1
    /\ last = NoCall

\* The caller has taken the answer of the call.
Complete ==
    /\ ~Idle
    /\ last' = NoCall
    /\ UNCHANGED <<rows, nextId>>

PostProducts ==
    /\ Idle
    /\ \E ctype \in ContentTypes, data \in Payloads, reading \in Readings :
        LET req == Request("POST", 0, ctype, data, NoArgs, Product, NoArg)
            out == create_products(rows, nextId, req, reading)
        IN  /\ out.nextId <= MaxId + 1
            /\ rows' = out.rows
            /\ nextId' = out.nextId
            /\ last' = Call(req, out.resp)

ListProducts ==
    /\ Idle
    /\ \E args \in QueryArgs :
        LET req == Request("LIST", 0, None, NoData, args, Product, NoArg)
        IN  /\ last' = Call(req, list_products(rows, req))
            /\ UNCHANGED <<rows, nextId>>

GetProduct ==
    /\ Idle
    /\ \E id \in PathIds :
        LET req == Request("GET", id, None, NoData, NoArgs, Product, NoArg)
        IN  /\ last' = Call(req, get_a_product(rows, id))
            /\ UNCHANGED <<rows, nextId>>

PutProduct ==
    /\ Idle
    /\ \E id \in PathIds, ctype \in ContentTypes, data \in Payloads, reading \in Readings :
        LET req == Request("PUT", id, ctype, data, NoArgs, Product, NoArg)
            out == update_a_product(rows, req, reading)
        IN  /\ rows' = out.rows
            /\ last' = Call(req, out.resp)
            /\ UNCHANGED nextId

DeleteProduct ==
    /\ Idle
    /\ \E id \in PathIds :
        LET req == Request("DELETE", id, None, NoData, NoArgs, Product, NoArg)
            out == delete_a_product(rows, id)
        IN  /\ rows' = out.rows
            /\ last' = Call(req, out.resp)
            /\ UNCHANGED nextId

\* product.create() on an in-memory record, as the tests call it.
RecordCreate ==
    /\ Idle
    /\ \E p \in MemoryRecords \cup {Product} :
        LET out == create(rows, nextId, p)
        IN  /\ out.nextId <= MaxId + 1
            /\ rows' = out.rows
            /\ nextId' = out.nextId
            /\ last' = Call(Request("create", 0, None, NoData, NoArgs, p, NoArg),
                            Result(out.error, out.product, {}))

\* product.update() on an in-memory record, one loaded and then stripped of
\* its id included.
RecordUpdate ==
    /\ Idle
    /\ \E p \in MemoryRecords \cup {[r EXCEPT !.id = None] : r \in rows} :
        LET out == update(rows, p)
        IN  /\ rows' = out.rows
            /\ last' = Call(Request("update", 0, None, NoData, NoArgs, p, NoArg),
                            Result(out.error, p, {}))
            /\ UNCHANGED nextId

\* product.delete()
RecordDelete ==
    /\ Idle
    /\ \E p \in MemoryRecords :
        /\ rows' = delete(rows, p)
        /\ last' = Call(Request("delete", 0, None, NoData, NoArgs, p, NoArg),
                        Result("", p, {}))
        /\ UNCHANGED nextId

\* product.deserialize(data) on a new record or on a loaded one
RecordDeserialize ==
    /\ Idle
    /\ \E self \in {Product} \cup rows, data \in Payloads, reading \in Readings :
        LET out == deserialize(self, data, reading)
        IN  /\ last' = Call(Request("deserialize", 0, None, data, NoArgs, self, NoArg),
                            Result(out.error, out.product, {}))
            /\ UNCHANGED <<rows, nextId>>

\* Product.all(), Product.find(id) and the four filtered lookups
RecordFind ==
    /\ Idle
    /\ \/ last' = Call(Request("all", 0, None, NoData, NoArgs, Product, NoArg),
                       Result("", Product, all(rows)))
       \/ \E id \in PathIds :
            last' = Call(Request("find", 0, None, NoData, NoArgs, Product, IdArg(id)),
                         Result("", Product, find(rows, id)))
       \/ \E name \in Names \cup {<<>>} :
            last' = Call(Request("find_by_name", 0, None, NoData, NoArgs, Product,
                                 NameArg(name)),
                         Result("", Product, find_by_name(rows, name)))
       \/ \E c \in Category :
            last' = Call(Request("find_by_category", 0, None, NoData, NoArgs, Product,
                                 CategoryArg(c)),
                         Result("", Product, find_by_category(rows, c)))
       \/ \E b \in BOOLEAN :
            last' = Call(Request("find_by_availability", 0, None, NoData, NoArgs,
                                 Product, BoolArg(b)),
                         Result("", Product, find_by_availability(rows, b)))
       \/ \E price \in PriceValues :
            last' = Call(Request("find_by_price", 0, None, NoData, NoArgs, Product,
                                 PriceArg(price)),
                         Result("", Product, find_by_price(rows, price)))
    /\ UNCHANGED <<rows, nextId>>

Next ==
    \/ PostProducts
    \/ ListProducts
    \/ GetProduct
    \/ PutProduct
    \/ DeleteProduct
    \/ RecordCreate
    \/ RecordUpdate
    \/ RecordDelete
    \/ RecordDeserialize
    \/ RecordFind
    \/ Complete

Spec == Init /\ [][Next]_vars

(***************************************************************************)
(* Properties                                                              *)
(***************************************************************************)
Op == last.req.op

Ids(tbl) == {r.id : r \in tbl}

Serialized(products) == {serialize(p) : p \in products}

\* The order in which GET /products is said to consider its parameters.
Precedence == <<"name", "category", "available", "price">>

\* What one filter alone answers on a table: the serialized records it
\* selects with status 200, or the failure of converting its text.
FilterResult(tbl, key, text) ==
    CASE key = "name" ->
           Response(200, "", "", None, Serialized(find_by_name(tbl, text)), None, FALSE)
      [] key = "category" ->
           IF \E c \in Category : CategoryName(c) = upper(text)
           THEN Response(200, "", "", None,
                         Serialized(find_by_category(tbl,
                             CHOOSE c \in Category : CategoryName(c) = upper(text))),
                         None, FALSE)
           ELSE Abort(500, "AttributeError", FALSE)
      [] key = "available" ->
           Response(200, "", "", None,
                    Serialized(find_by_availability(tbl, lower(text) \in TrueTexts)),
                    None, FALSE)
      [] key = "price" ->
           IF IsDecimalText(text)
           THEN Response(200, "", "", None,
                         Serialized(find_by_price(tbl, PStr(text))), None, FALSE)
           ELSE Abort(500, "InvalidOperation", FALSE)

\* The answer when, of the parameters `counted', the first in the order of
\* precedence is applied alone; every record when none is counted.
FirstFilterAlone(tbl, args, counted) ==
    IF \E i \in 1..4 : Precedence[i] \in counted
    THEN LET i == CHOOSE i \in 1..4 :
                    /\ Precedence[i] \in counted
                    /\ \A j \in 1..(i - 1) : Precedence[j] \notin counted
         IN  FilterResult(tbl, Precedence[i], args[Precedence[i]][1])
    ELSE Response(200, "", "", None, Serialized(tbl), None, FALSE)

Filters == {"name", "category", "available", "price"}

Present(args) == {k \in Filters : args[k] # None}

NonEmpty(args) == {k \in Filters : args[k] # None /\ args[k][1] # <<>>}

\* C1, as stated: the response of GET /products is the result of the first
\* PRESENT parameter's filter alone, in the order name, category, available,
\* price, and every record when none is present.  Violated: a parameter
\* supplied with an empty value is skipped by the handler.
C1_FirstPresentFilter ==
    Op = "LIST" => last.resp = FirstFilterAlone(last.before, last.req.args, Present(last.req.args))

\* C1, amended: the response of GET /products is the result of the filter of
\* the first parameter, in the order name, category, available, price, that
\* is supplied with a non-empty value, and of that filter alone; when no
\* parameter has a non-empty value the response is every persisted record.
\* The table is left as it was.
C1_FirstNonEmptyFilter ==
    Op = "LIST" =>
        /\ last.resp = FirstFilterAlone(last.before, last.req.args, NonEmpty(last.req.args))
        /\ rows = last.before

\* A listing with name and category both supplied, answered by the name
\* filter with a result the category filter alone would not give.
C1_Witness ==
    /\ Op = "LIST"
    /\ {"name", "category", "price"} \subseteq NonEmpty(last.req.args)
    /\ last.resp.list # {}
    /\ last.resp # FilterResult(rows, "category", last.req.args.category[1])
    /\ last.resp # FilterResult(rows, "price", last.req.args.price[1])

\* C2: every persisted record has an id, no two persisted records share
\* one; a newly constructed record has none; and right after create(), or a
\* POST answered 201, the record's id is set, was the id of no record
\* persisted before, is the id of no other persisted record, and all()
\* holds the record.
C2_IdsAssignedAndUnique ==
    /\ \A r \in rows : r.id # None
    /\ \A r1, r2 \in rows : r1.id = r2.id => r1 = r2
    /\ Product.id = None
    /\ (Op = "create" /\ last.resp.error = "") =>
          /\ last.resp.product.id # None
          /\ last.resp.product.id \notin Ids(last.before)
          /\ last.resp.product \in all(rows)
          /\ \A r \in rows : r.id = last.resp.product.id => r = last.resp.product
    /\ (Op = "POST" /\ last.resp.status = 201) =>
          /\ last.resp.body # None
          /\ last.resp.body[1].id # None
          /\ last.resp.body[1].id \notin Ids(last.before)
          /\ \E r \in all(rows) :
                /\ serialize(r) = last.resp.body[1]
                /\ \A q \in rows : q.id = r.id => q = r

\* A POST answered 201 while another record is persisted, after a delete
\* (the table is smaller than the number of ids handed out).
C2_Witness ==
    /\ Op = "POST"
    /\ last.resp.status = 201
    /\ Cardinality(rows) >= 2
    /\ last.before # {}

\* C3: a DELETE of an id that is persisted answers 200 and removes exactly
\* that record: find(id) is then empty, GET of the id answers 404, a second
\* DELETE answers 404 and the other records are as they were; a DELETE of an
\* id that is not persisted answers 404 and leaves the table as it was.
C3_DeleteRemovesExactlyOne ==
    Op = "DELETE" =>
        IF find(last.before, last.req.id) # {}
        THEN /\ last.resp.status = 200
             /\ find(rows, last.req.id) = {}
             /\ get_a_product(rows, last.req.id).status = 404
             /\ all(rows) = last.before \ find(last.before, last.req.id)
             /\ delete_a_product(rows, last.req.id).resp.status = 404
             /\ delete_a_product(rows, last.req.id).rows = rows
        ELSE /\ last.resp.status = 404
             /\ rows = last.before

\* A DELETE answered 200 that leaves another record behind.
C3_Witness ==
    /\ Op = "DELETE"
    /\ last.resp.status = 200
    /\ rows # {}
    /\ Cardinality(last.before) = Cardinality(rows) + 1

\* C4, as stated: a PUT whose id matches no persisted record answers 404
\* and changes nothing.  Violated: the content type is checked first, so
\* such a PUT without Content-Type application/json answers 415.
C4_UnknownIdAnswers404 ==
    (Op = "PUT" /\ find(last.before, last.req.id) = {}) =>
        /\ last.resp.status = 404
        /\ rows = last.before

\* C4, amended: a PUT with Content-Type application/json whose id matches
\* no persisted record answers 404; whatever its content type, a PUT to
\* such an id neither creates nor modifies a record, and answers 415 when
\* the content type is absent or another.
C4_UnknownIdAnswers404GivenJson ==
    (Op = "PUT" /\ find(last.before, last.req.id) = {}) =>
        /\ last.req.ctype = Some(JSON) => last.resp.status = 404
        /\ last.req.ctype # Some(JSON) => last.resp.status = 415
        /\ rows = last.before
        /\ find(rows, last.req.id) = {}

\* A PUT of a well-formed body, as JSON, to an id that was deleted, while
\* another record is persisted.
C4_Witness ==
    /\ Op = "PUT"
    /\ last.req.ctype = Some(JSON)
    /\ ~DeserializeFails(last.req.data)
    /\ last.req.id \in 1..(nextId - 1)
    /\ find(last.before, last.req.id) = {}
    /\ rows # {}
    /\ last.resp.status = 404

\* C5: a PUT answered 200 leaves the ids of the table as they were; the
\* record returned is the persisted record of the path's id, whatever id
\* the body carries, and its name, price, availability and category, and its
\* description when the body has one, are the body's.
C5_PutKeepsId ==
    (Op = "PUT" /\ last.resp.status = 200) =>
        /\ Ids(rows) = Ids(last.before)
        /\ Cardinality(rows) = Cardinality(last.before)
        /\ last.resp.body # None
        /\ last.resp.body[1].id = Some(last.req.id)
        /\ \E r \in find(rows, last.req.id) :
              /\ serialize(r) = last.resp.body[1]
              /\ r.name = Some(last.req.data.name)
              /\ r.price = Some(DecimalOf(last.req.data.price))
              /\ r.available = Some(last.req.data.available.b)
              /\ r.category # None
              /\ CategoryName(r.category[1]) = last.req.data.category
              /\ "description" \in last.req.data.keys =>
                    r.description = Some(last.req.data.description)
        /\ \A r \in rows : r.id # Some(last.req.id) => r \in last.before

\* A PUT answered 200 whose body carries the id of another persisted record
\* and changes the record's name.
C5_Witness ==
    /\ Op = "PUT"
    /\ last.resp.status = 200
    /\ "id" \in last.req.data.keys
    /\ last.req.data.id # last.req.id
    /\ find(rows, last.req.data.id) # {}
    /\ rows # last.before

\* C6: a POST or PUT whose Content-Type header is absent or is not
\* application/json answers 415, the body is not read, and the table is as
\* it was.
C6_WrongContentType415 ==
    (Op \in {"POST", "PUT"} /\ last.req.ctype # Some(JSON)) =>
        /\ last.resp.status = 415
        /\ ~last.resp.readBody
        /\ rows = last.before

\* A PUT of a well-formed body to a persisted id, without the header.
C6_Witness ==
    /\ Op = "PUT"
    /\ last.req.ctype = None
    /\ find(rows, last.req.id) # {}
    /\ ~DeserializeFails(last.req.data)
    /\ last.resp.status = 415

\* C7: a POST of a well-formed payload as JSON answers 201; an answer 201
\* carries the serialized new record and a Location naming the read endpoint
\* of the record's id, and a GET of that location, with no call in between,
\* answers 200 with the same serialized record.
C7_PostThenGetLocation ==
    Op = "POST" =>
        /\ (last.req.ctype = Some(JSON) /\ ~DeserializeFails(last.req.data)) =>
              last.resp.status = 201
        /\ last.resp.status = 201 =>
              /\ last.resp.body # None
              /\ last.resp.location # None
              /\ last.resp.location = last.resp.body[1].id
              /\ last.resp.location[1] \notin {r.id[1] : r \in last.before}
              /\ get_a_product(rows, last.resp.location[1]).status = 200
              /\ get_a_product(rows, last.resp.location[1]).body = last.resp.body
              /\ last.resp.body[1].name = Some(last.req.data.name)

\* A POST answered 201 for a payload whose price text is not in the form
\* the response serializes it in.
C7_Witness ==
    /\ Op = "POST"
    /\ last.resp.status = 201
    /\ last.before # {}
    /\ last.resp.body[1].price # Some(last.req.data.price)

\* C8: update() on a record whose id is None raises DataValidationError,
\* whatever the record's other fields are, and the persisted rows are as
\* they were.
C8_UpdateWithoutIdFails ==
    (Op = "update" /\ last.req.rec.id = None) =>
        /\ last.resp.error = "DataValidationError"
        /\ rows = last.before

\* update() on a record that was loaded from the table and then had its id
\* set to None.
C8_Witness ==
    /\ Op = "update"
    /\ last.req.rec.id = None
    /\ \E r \in rows : [r EXCEPT !.id = None] = last.req.rec
    /\ last.resp.error = "DataValidationError"

\* C9: deserialize(data) raises DataValidationError exactly when the data is
\* no mapping, or lacks one of the required keys, or carries an available
\* that is no boolean, or names a category that is not one of the
\* enumeration; otherwise it succeeds, and the record then holds the data's
\* values.
C9_DeserializeValidates ==
    Op = "deserialize" =>
        LET data == last.req.data
            bad == \/ ~data.mapping
                   \/ \E k \in {"name", "price", "available", "category"} : k \notin data.keys
                   \/ ("available" \in data.keys /\ data.available.kind # "bool")
                   \/ ("category" \in data.keys /\ data.category \notin {CLOTHS, UNKNOWN})
        IN  /\ bad => last.resp.error = "DataValidationError"
            /\ ~bad =>
                  /\ last.resp.error = ""
                  /\ last.resp.product.name = Some(data.name)
                  /\ last.resp.product.available = Some(data.available.b)
                  /\ serialize(last.resp.product).category = Some(data.category)
            /\ rows = last.before

\* deserialize refused a mapping that has every key and a known category,
\* because its available is the text "True".
C9_Witness ==
    /\ Op = "deserialize"
    /\ last.req.data.mapping
    /\ RequiredKeys \subseteq last.req.data.keys
    /\ last.req.data.category = UNKNOWN
    /\ last.req.data.available.kind = "str"
    /\ last.resp.error = "DataValidationError"

\* Texts of decimals paired with the Decimal of the same value (hundredths).
SameValue ==
    {<< <<"1","2",".","5","0">>, 1250 >>, << <<"1","2",".","5">>, 1250 >>,
     << <<"1","9",".","9","9">>, 1999 >>}

\* C10: find_by_name, find_by_category, find_by_availability and
\* find_by_price each return exactly the persisted records whose field
\* equals the argument; find_by_price called with the text of a decimal
\* returns what it returns for the Decimal of the same value.
C10_FiltersExact ==
    /\ Op = "find_by_name" =>
          last.resp.records = {r \in rows : r.name = Some(last.req.arg.s)}
    /\ Op = "find_by_category" =>
          last.resp.records = {r \in rows : r.category = Some(last.req.arg.c)}
    /\ Op = "find_by_availability" =>
          last.resp.records = {r \in rows : r.available = Some(last.req.arg.b)}
    /\ (Op = "find_by_price" /\ last.req.arg.kind = "dec") =>
          last.resp.records = {r \in rows : r.price = Some(last.req.arg.d)}
    /\ (Op = "find_by_price" /\ last.req.arg.kind = "str") =>
          \A pair \in SameValue :
              pair[1] = last.req.arg.s =>
                  /\ last.resp.records = {r \in rows : r.price = Some(pair[2])}
                  /\ last.resp.records = find_by_price(rows, PDec(pair[2]))

\* find_by_price called with the text 12.5 found a record, and left another
\* out.
C10_Witness ==
    /\ Op = "find_by_price"
    /\ last.req.arg.kind = "str"
    /\ last.req.arg.s = <<"1","2",".","5">>
    /\ last.resp.records # {}
    /\ last.resp.records # rows

Handlers == {"POST", "LIST", "GET", "PUT", "DELETE"}

\* C11: GET /products answers 200 with a list of serialized records
\* whatever the values of name, category, available and price, and no
\* handler ends in an error other than a validation error, a not-found or a
\* content-type error.  Violated: a category that names no member of the
\* enumeration, or a price that is no decimal, leaves list_products by an
\* exception of another kind.
C11_ListAnswers200 ==
    /\ Op = "LIST" =>
          /\ last.resp.status = 200
          /\ last.resp.error = ""
          /\ \E products \in SUBSET last.before : last.resp.list = Serialized(products)
    /\ Op \in Handlers =>
          last.resp.error \in {"", "DataValidationError", "NotFound", "UnsupportedMediaType"}

\* Two texts that differ at most in the case of their letters.
SameIgnoringCase(a, b) ==
    /\ Len(a) = Len(b)
    /\ \A i \in 1..Len(a) : UpperChar(a[i]) = UpperChar(b[i])

\* The words that mean true, in one spelling each.
TrueWords == {<<"T","R","U","E">>, <<"Y","E","S">>, <<"1">>}

\* C12: when available is the parameter GET /products applies (name and
\* category are absent or empty, available is not empty), the answer is 200
\* with exactly the available records if its text is true, yes or 1 in any
\* case of letters, and exactly the unavailable records for any other text;
\* when category is the parameter applied and its text is the name of a
\* member in any case of letters, the answer is 200 with exactly the records
\* of that category, so cloths and CLOTHS are answered alike.
C12_CaseInsensitiveFilters ==
    Op = "LIST" =>
        LET args == last.req.args IN
        /\ ({"name", "category"} \cap NonEmpty(args) = {} /\ "available" \in NonEmpty(args)) =>
              LET wanted == \E w \in TrueWords : SameIgnoringCase(args.available[1], w) IN
              /\ last.resp.status = 200
              /\ last.resp.list = Serialized({r \in rows : r.available = Some(wanted)})
        /\ ("name" \notin NonEmpty(args) /\ "category" \in NonEmpty(args)) =>
              \A c \in Category :
                  SameIgnoringCase(args.category[1], CategoryName(c)) =>
                      /\ last.resp.status = 200
                      /\ last.resp.list = Serialized({r \in rows : r.category = Some(c)})
                      /\ last.resp = list_products(rows,
                             [last.req EXCEPT !.args.category = Some(CategoryName(c))])

\* A listing by available=Yes, with a price also supplied, that returned an
\* available record and left an unavailable one out.
C12_Witness ==
    /\ Op = "LIST"
    /\ {"name", "category"} \cap NonEmpty(last.req.args) = {}
    /\ last.req.args.available = Some(<<"Y","e","s">>)
    /\ "price" \in NonEmpty(last.req.args)
    /\ last.resp.list # {}
    /\ last.resp.list # Serialized(rows)

====
